---- MODULE Spec2Model ----
(***************************************************************************)
(* Model of server/analysis/analyze_duke_1362.py: the single linear        *)
(* pipeline create_analysis() = load_data, extract_players, the four       *)
(* aggregators, compare_duke_to_league, generate_insights, the report      *)
(* assembly and the write of the JSON report.                              *)
(*                                                                         *)
(* Python dicts are functions over their key set, lists are sequences.     *)
(* A number produced by a true division or by statistics.mean/median is    *)
(* kept as an exact fraction [err, num, den] with den > 0; a raised        *)
(* exception is the same record with err # "none".  statistics.stdev is    *)
(* kept by its square (the sample variance), sqrt being a bijection on the *)
(* non-negative numbers.                                                   *)
(***************************************************************************)
EXTENDS Integers, Sequences, FiniteSets, TLC

\* ---------------------------------------------------------------- bounds
MaxPlayers == 3

\* ------------------------------------------------------ program constants
TargetTeam == "Duke"
UnknownTeam == "Unknown"
ExpectedBudget == 260
OpenTierCap == 999

\* ------------------------------------------------------------ arithmetic
Ok(n, d) == [err |-> "none", num |-> n, den |-> d]
Err(e) == [err |-> e, num |-> 0, den |-> 1]
Int2Num(n) == Ok(n, 1)

\* a / b of Python: ZeroDivisionError when b is zero
Div(a, b) ==
  IF a.err # "none" THEN a
  ELSE IF b.err # "none" THEN b
  ELSE IF b.num = 0 THEN Err("ZeroDivisionError")
  ELSE IF b.num > 0 THEN Ok(a.num * b.den, a.den * b.num)
  ELSE Ok(-(a.num * b.den), -(a.den * b.num))

Sub(a, b) ==
  IF a.err # "none" THEN a
  ELSE IF b.err # "none" THEN b
  ELSE Ok(a.num * b.den - b.num * a.den, a.den * b.den)

Mul(a, b) ==
  IF a.err # "none" THEN a
  ELSE IF b.err # "none" THEN b
  ELSE Ok(a.num * b.num, a.den * b.den)

GT(a, b) == a.num * b.den > b.num * a.den
LT(a, b) == a.num * b.den < b.num * a.den

RECURSIVE SumSeq(_)
SumSeq(s) == IF s = <<>> THEN 0 ELSE Head(s) + SumSeq(Tail(s))

RECURSIVE SumSq(_)
SumSq(s) == IF s = <<>> THEN 0 ELSE Head(s) * Head(s) + SumSq(Tail(s))

RECURSIVE InsertAsc(_, _)
InsertAsc(x, s) ==
  IF s = <<>> THEN <<x>>
  ELSE IF x < Head(s) THEN <<x>> \o s
  ELSE <<Head(s)>> \o InsertAsc(x, Tail(s))

RECURSIVE SortAsc(_)
SortAsc(s) == IF s = <<>> THEN <<>> ELSE InsertAsc(Head(s), SortAsc(Tail(s)))

\* statistics.mean: StatisticsError on no data
mean(data) ==
  IF Len(data) = 0 THEN Err("StatisticsError") ELSE Ok(SumSeq(data), Len(data))

\* statistics.median: middle of the sorted data, mean of the middle pair
median(data) ==
  LET n == Len(data)
      sorted == SortAsc(data)
  IN IF n = 0 THEN Err("StatisticsError")
     ELSE IF n % 2 = 1 THEN Int2Num(sorted[(n \div 2) + 1])
     ELSE Ok(sorted[n \div 2] + sorted[(n \div 2) + 1], 2)

\* statistics.stdev, kept by its square: StatisticsError under two points
stdev(data) ==
  LET n == Len(data)
  IN IF n < 2 THEN Err("StatisticsError")
     ELSE Ok(n * SumSq(data) - SumSeq(data) * SumSeq(data), n * (n - 1))

MaxOf(data) == CHOOSE x \in {data[i] : i \in DOMAIN data} :
                 \A y \in {data[i] : i \in DOMAIN data} : y <= x
MinOf(data) == CHOOSE x \in {data[i] : i \in DOMAIN data} :
                 \A y \in {data[i] : i \in DOMAIN data} : x <= y

\* ------------------------------------------------------------ the inputs
\* A player object of data.players.  hasBid / hasTeam say whether the keys
\* 'winningBid' / 'winningTeam' are present; positions is free of repeats.
Player(name, st, hb, bid, ht, team, pos) ==
  [fullName |-> name, status |-> st, hasBid |-> hb, winningBid |-> bid,
   hasTeam |-> ht, winningTeam |-> team, positions |-> pos]

PlayerPool ==
  { Player("d1", "drafted", TRUE, 10, TRUE, "Duke", <<"P1">>),
    Player("d2", "drafted", TRUE, 20, TRUE, "Duke", <<"P1", "P2">>),
    Player("d3", "drafted", TRUE, 0, TRUE, "Duke", <<"P2">>),
    Player("a1", "drafted", TRUE, 10, TRUE, "A", <<"P1">>),
    Player("a2", "drafted", TRUE, 20, TRUE, "A", <<"P2", "P1">>),
    Player("a3", "drafted", TRUE, 1000, TRUE, "A", <<"P2">>),
    Player("b1", "drafted", TRUE, 5, TRUE, "B", <<"P1">>),
    Player("u1", "drafted", TRUE, 31, FALSE, "", <<>>),
    Player("n1", "drafted", FALSE, 0, TRUE, "B", <<"P1">>),
    Player("f1", "available", TRUE, 6, FALSE, "", <<"P2">>) }

PlayerLists == UNION { [1..n -> PlayerPool] : n \in 0..MaxPlayers }

AuctionFiles ==
  { [state |-> s, players |-> <<>>] : s \in {"missing", "malformed"} }
  \cup { [state |-> "ok", players |-> ps] : ps \in PlayerLists }

\* The historical reference: only the lengths of the two indexed arrays
\* decide anything; the rates are opaque numbers.
TierLens == {0, 1}
RangeLens == {3, 4}
HistoricalFiles ==
  { [state |-> s, aggregateTierInflation |-> <<>>,
     aggregatePriceRangeInflation |-> <<>>] : s \in {"missing", "malformed"} }
  \cup { [state |-> "ok",
          aggregateTierInflation |-> [i \in 1..t |-> 10 + i],
          aggregatePriceRangeInflation |-> [i \in 1..r |-> 20 + i]] :
         t \in TierLens, r \in RangeLens }

NoDoc == [state |-> "unset", players |-> <<>>]
NoHist == [state |-> "unset", aggregateTierInflation |-> <<>>,
           aggregatePriceRangeInflation |-> <<>>]

VARIABLES
  pc, error,
  auctionFile, historicalFile, outputFile,
  auction_data, historical,
  all_players, duke_players,
  teams, league_pos_stats, duke_pos_breakdown,
  league_price_tiers, duke_price_tiers,
  duke_vs_league, insights, analysis

vars == <<pc, error, auctionFile, historicalFile, outputFile,
          auction_data, historical, all_players, duke_players,
          teams, league_pos_stats, duke_pos_breakdown,
          league_price_tiers, duke_price_tiers,
          duke_vs_league, insights, analysis>>

files == <<auctionFile, historicalFile>>

Init ==
  /\ pc = "start"
  /\ error = "none"
  /\ auctionFile \in AuctionFiles
  /\ historicalFile \in HistoricalFiles
  /\ outputFile = [state |-> "untouched", content |-> <<>>]
  /\ auction_data = NoDoc
  /\ historical = NoHist
  /\ all_players = <<>>
  /\ duke_players = <<>>
  /\ teams = <<>>
  /\ league_pos_stats = <<>>
  /\ duke_pos_breakdown = <<>>
  /\ league_price_tiers = <<>>
  /\ duke_price_tiers = <<>>
  /\ duke_vs_league = <<>>
  /\ insights = <<>>
  /\ analysis = <<>>

\* ------------------------------------------------------------- load_data
LoadError ==
  IF auctionFile.state = "missing" THEN "FileNotFoundError"
  ELSE IF auctionFile.state = "malformed" THEN "JSONDecodeError"
  ELSE IF historicalFile.state = "missing" THEN "FileNotFoundError"
  ELSE IF historicalFile.state = "malformed" THEN "JSONDecodeError"
  ELSE "none"

LoadData ==
  /\ pc = "start"
  /\ IF LoadError # "none"
     THEN /\ pc' = "failed"
          /\ error' = LoadError
          /\ UNCHANGED <<auction_data, historical>>
     ELSE /\ pc' = "loaded"
          /\ auction_data' = auctionFile
          /\ historical' = historicalFile
          /\ UNCHANGED error
  /\ UNCHANGED <<files, outputFile, all_players, duke_players, teams,
                 league_pos_stats, duke_pos_breakdown, league_price_tiers,
                 duke_price_tiers, duke_vs_league, insights, analysis>>

\* ------------------------------------------------------- extract_players
IsDrafted(p) == p.status = "drafted" /\ p.hasBid
IsDuke(p) == p.hasTeam /\ p.winningTeam = TargetTeam

extract_all(players) == SelectSeq(players, IsDrafted)
extract_duke(players) == SelectSeq(players, IsDuke)

ExtractPlayers ==
  /\ pc = "loaded"
  /\ pc' = "extracted"
  /\ all_players' = extract_all(auction_data.players)
  /\ duke_players' = extract_duke(extract_all(auction_data.players))
  /\ UNCHANGED <<error, files, outputFile, auction_data, historical, teams,
                 league_pos_stats, duke_pos_breakdown, league_price_tiers,
                 duke_price_tiers, duke_vs_league, insights, analysis>>

\* ----------------------------------------------------------- dict helper
\* d[k] = v on a dict: the key is added when it is new
DictPut(d, k, v) == [x \in (DOMAIN d) \cup {k} |-> IF x = k THEN v ELSE d[x]]

Bids(players) == [i \in 1..Len(players) |-> players[i].winningBid]

\* --------------------------------------------------------- analyze_teams
TeamKey(p) == IF p.hasTeam THEN p.winningTeam ELSE UnknownTeam

\* variant: the team total is overwritten instead of accumulated
TeamAdd_Overwrite(tm, p) ==
  LET team == TeamKey(p)
      cur == IF team \in DOMAIN tm THEN tm[team]
             ELSE [players |-> <<>>, total |-> 0]
  IN DictPut(tm, team, [players |-> Append(cur.players, p),
                        total |-> p.winningBid])

TeamAdd(tm, p) ==
  LET team == TeamKey(p)
      cur == IF team \in DOMAIN tm THEN tm[team]
             ELSE [players |-> <<>>, total |-> 0]
  IN DictPut(tm, team, [players |-> Append(cur.players, p),
                        total |-> cur.total + p.winningBid])

RECURSIVE analyze_teams_loop(_, _)
analyze_teams_loop(ps, tm) ==
  IF ps = <<>> THEN tm
  ELSE analyze_teams_loop(Tail(ps), TeamAdd(tm, Head(ps)))

analyze_teams(players) == analyze_teams_loop(players, <<>>)

AnalyzeTeams ==
  /\ pc = "extracted"
  /\ pc' = "teams"
  /\ teams' = analyze_teams(all_players)
  /\ UNCHANGED <<error, files, outputFile, auction_data, historical,
                 all_players, duke_players,
                 league_pos_stats, duke_pos_breakdown, league_price_tiers,
                 duke_price_tiers, duke_vs_league, insights, analysis>>

\* ----------------------------------------------------- analyze_positions
PositionAdd(st, pos, bid) ==
  LET cur == IF pos \in DOMAIN st THEN st[pos]
             ELSE [bids |-> <<>>, count |-> 0]
  IN DictPut(st, pos, [bids |-> Append(cur.bids, bid),
                       count |-> cur.count + 1])

\* variant: a player is booked on its first position only
position_inner_FirstOnly(poss, bid, st) ==
  IF poss = <<>> THEN st ELSE PositionAdd(st, Head(poss), bid)

RECURSIVE position_inner(_, _, _)
position_inner(poss, bid, st) ==
  IF poss = <<>> THEN st
  ELSE position_inner(Tail(poss), bid, PositionAdd(st, Head(poss), bid))

RECURSIVE position_loop(_, _)
position_loop(ps, st) ==
  IF ps = <<>> THEN st
  ELSE position_loop(Tail(ps),
                     position_inner(Head(ps).positions, Head(ps).winningBid, st))

\* variant: the guard lets a single bid through to stdev
StdDevOf_OneBid(bids) == IF Len(bids) > 0 THEN stdev(bids) ELSE Int2Num(0)

\* the guard of 'stdDev': stdev only with more than one bid
StdDevOf(bids) == IF Len(bids) > 1 THEN stdev(bids) ELSE Int2Num(0)

PositionRow(stats) ==
  [count |-> stats.count,
   totalSpent |-> SumSeq(stats.bids),
   avgBid |-> mean(stats.bids),
   medianBid |-> median(stats.bids),
   maxBid |-> MaxOf(stats.bids),
   minBid |-> MinOf(stats.bids),
   stdDev |-> StdDevOf(stats.bids)]

analyze_positions(players) ==
  LET position_stats == position_loop(players, <<>>)
  IN [pos \in DOMAIN position_stats |-> PositionRow(position_stats[pos])]

PositionsError(stats) ==
  IF \E pos \in DOMAIN stats :
       \/ stats[pos].avgBid.err # "none"
       \/ stats[pos].medianBid.err # "none"
       \/ stats[pos].stdDev.err # "none"
  THEN "StatisticsError" ELSE "none"

\* ----------------------------------------------- duke_position_breakdown
BreakdownAdd(dp, pos, p) ==
  DictPut(dp, pos, Append(IF pos \in DOMAIN dp THEN dp[pos] ELSE <<>>, p))

RECURSIVE breakdown_inner(_, _, _)
breakdown_inner(poss, p, dp) ==
  IF poss = <<>> THEN dp
  ELSE breakdown_inner(Tail(poss), p, BreakdownAdd(dp, Head(poss), p))

RECURSIVE breakdown_loop(_, _)
breakdown_loop(ps, dp) ==
  IF ps = <<>> THEN dp
  ELSE breakdown_loop(Tail(ps), breakdown_inner(Head(ps).positions, Head(ps), dp))

duke_position_breakdown(players) ==
  LET duke_positions == breakdown_loop(players, <<>>)
  IN [pos \in DOMAIN duke_positions |->
        LET plist == duke_positions[pos]
        IN [count |-> Len(plist),
            totalSpent |-> SumSeq(Bids(plist)),
            avgBid |-> mean(Bids(plist)),
            players |-> [i \in 1..Len(plist) |->
                           [name |-> plist[i].fullName,
                            bid |-> plist[i].winningBid]]]]

BreakdownError(bd) ==
  IF \E pos \in DOMAIN bd : bd[pos].avgBid.err # "none"
  THEN "StatisticsError" ELSE "none"

\* create_analysis, lines 189-191: league position stats, then Duke's
AnalyzePositions ==
  /\ pc = "teams"
  /\ LET lps == analyze_positions(all_players)
         dpb == duke_position_breakdown(duke_players)
         e == IF PositionsError(lps) # "none" THEN PositionsError(lps)
              ELSE BreakdownError(dpb)
     IN IF e # "none"
        THEN /\ pc' = "failed"
             /\ error' = e
             /\ UNCHANGED <<league_pos_stats, duke_pos_breakdown>>
        ELSE /\ pc' = "positions"
             /\ league_pos_stats' = lps
             /\ duke_pos_breakdown' = dpb
             /\ UNCHANGED error
  /\ UNCHANGED <<files, outputFile, auction_data, historical,
                 all_players, duke_players, teams, league_price_tiers,
                 duke_price_tiers, duke_vs_league, insights, analysis>>

\* --------------------------------------------------- analyze_price_tiers
tiers ==
  << [min_p |-> 1, max_p |-> 5, label |-> "Filler ($1-$5)"],
     [min_p |-> 6, max_p |-> 10, label |-> "Value ($6-$10)"],
     [min_p |-> 11, max_p |-> 15, label |-> "Mid-tier ($11-$15)"],
     [min_p |-> 16, max_p |-> 20, label |-> "Quality ($16-$20)"],
     [min_p |-> 21, max_p |-> 30, label |-> "Star ($21-$30)"],
     [min_p |-> 31, max_p |-> OpenTierCap, label |-> "Elite ($31+)"] >>

InTier(bid, t) == t.min_p <= bid /\ bid <= t.max_p

TierBids(players, t) ==
  LET in(b) == InTier(b, t) IN SelectSeq(Bids(players), in)

\* variant: the comprehension has no filter, every tier is a key
TierEmitted_All(players, t) == TRUE

\* the filter of the comprehension: only tiers some player falls in
TierEmitted(players, t) ==
  \E i \in 1..Len(players) : InTier(players[i].winningBid, t)

TierRow(players, t) ==
  LET total_spent == SumSeq(Bids(players))
      tb == TierBids(players, t)
  IN [minPrice |-> t.min_p,
      maxPrice |-> IF t.max_p < OpenTierCap THEN <<t.max_p>> ELSE <<>>,
      count |-> Len(tb),
      totalSpent |-> SumSeq(tb),
      percentOfTotal |-> IF total_spent > 0
                         THEN Mul(Div(Int2Num(SumSeq(tb)), Int2Num(total_spent)),
                                  Int2Num(100))
                         ELSE Int2Num(0),
      avgBid |-> IF Len(tb) > 0 THEN mean(tb) ELSE Int2Num(0)]

analyze_price_tiers(players) ==
  LET emitted == {i \in DOMAIN tiers : TierEmitted(players, tiers[i])}
      idx(label) == CHOOSE i \in emitted : tiers[i].label = label
  IN [label \in {tiers[i].label : i \in emitted} |->
        TierRow(players, tiers[idx(label)])]

AnalyzePriceTiers ==
  /\ pc = "positions"
  /\ pc' = "tiers"
  /\ league_price_tiers' = analyze_price_tiers(all_players)
  /\ duke_price_tiers' = analyze_price_tiers(duke_players)
  /\ UNCHANGED <<error, files, outputFile, auction_data, historical,
                 all_players, duke_players, teams, league_pos_stats,
                 duke_pos_breakdown, duke_vs_league, insights, analysis>>

\* ------------------------------------------------ compare_duke_to_league
\* variant: the comparison is not strict
CompareRow_NonStrict(duke_avg, league_avg) ==
  [dukeAvg |-> duke_avg,
   leagueAvg |-> league_avg,
   difference |-> Sub(duke_avg, league_avg),
   percentDiff |-> IF GT(league_avg, Int2Num(0))
                   THEN Mul(Div(Sub(duke_avg, league_avg), league_avg),
                            Int2Num(100))
                   ELSE Int2Num(0),
   interpretation |-> IF ~LT(duke_avg, league_avg) THEN "overpaid" ELSE "value"]

CompareRow(duke_avg, league_avg) ==
  [dukeAvg |-> duke_avg,
   leagueAvg |-> league_avg,
   difference |-> Sub(duke_avg, league_avg),
   percentDiff |-> IF GT(league_avg, Int2Num(0))
                   THEN Mul(Div(Sub(duke_avg, league_avg), league_avg),
                            Int2Num(100))
                   ELSE Int2Num(0),
   interpretation |-> IF GT(duke_avg, league_avg) THEN "overpaid" ELSE "value"]

compare_duke_to_league(dukes, everyone) ==
  LET lps == analyze_positions(everyone)
      dpb == duke_position_breakdown(dukes)
  IN [pos \in (DOMAIN dpb) \cap (DOMAIN lps) |->
        CompareRow(dpb[pos].avgBid, lps[pos].avgBid)]

CompareError(dukes, everyone) ==
  IF PositionsError(analyze_positions(everyone)) # "none"
  THEN PositionsError(analyze_positions(everyone))
  ELSE BreakdownError(duke_position_breakdown(dukes))

CompareDukeToLeague ==
  /\ pc = "tiers"
  /\ IF CompareError(duke_players, all_players) # "none"
     THEN /\ pc' = "failed"
          /\ error' = CompareError(duke_players, all_players)
          /\ UNCHANGED duke_vs_league
     ELSE /\ pc' = "compared"
          /\ duke_vs_league' = compare_duke_to_league(duke_players, all_players)
          /\ UNCHANGED error
  /\ UNCHANGED <<files, outputFile, auction_data, historical,
                 all_players, duke_players, teams, league_pos_stats,
                 duke_pos_breakdown, league_price_tiers, duke_price_tiers,
                 insights, analysis>>

\* ----------------------------------------------------- generate_insights
\* seq[i] of Python (0-based): IndexError past the end
PyIndex(seq, i) ==
  IF i + 1 \in DOMAIN seq THEN Int2Num(seq[i + 1]) ELSE Err("IndexError")

RECURSIVE FirstErr(_)
FirstErr(nums) ==
  IF nums = <<>> THEN "none"
  ELSE IF Head(nums).err # "none" THEN Head(nums).err
  ELSE FirstErr(Tail(nums))

\* the numbers generate_insights evaluates, in evaluation order
InsightNums(dukes, everyone, tm, hist) ==
  LET duke_total == SumSeq(Bids(dukes))
      total_spent == SumSeq(Bids(everyone))
      num_teams == Cardinality(DOMAIN tm)
  IN [budget_pct |-> Mul(Div(Int2Num(duke_total), Int2Num(ExpectedBudget)),
                         Int2Num(100)),
      avg_roster |-> Div(Int2Num(Len(everyone)), Int2Num(num_teams)),
      duke_avg |-> Div(Int2Num(duke_total), Int2Num(Len(dukes))),
      league_avg |-> Div(Int2Num(total_spent), Int2Num(Len(everyone))),
      hist_tier1_infl |-> PyIndex(hist.aggregateTierInflation, 0),
      hist_elite_infl |-> PyIndex(hist.aggregatePriceRangeInflation, 3),
      hist_budget_infl |-> PyIndex(hist.aggregatePriceRangeInflation, 0)]

InsightsError(dukes, everyone, tm, hist) ==
  LET n == InsightNums(dukes, everyone, tm, hist)
  IN FirstErr(<<n.budget_pct, n.avg_roster, n.duke_avg, n.league_avg,
                n.hist_tier1_infl, n.hist_elite_infl, n.hist_budget_infl>>)

generate_insights(dukes, everyone, tm, hist) ==
  LET n == InsightNums(dukes, everyone, tm, hist)
      duke_total == SumSeq(Bids(dukes))
  IN << [category |-> "Budget Status",
         figures |-> <<Int2Num(duke_total), n.budget_pct,
                       Int2Num(ExpectedBudget - duke_total)>>,
         implication |-> IF LT(n.budget_pct, Int2Num(80)) THEN "Moderate"
                         ELSE IF LT(n.budget_pct, Int2Num(90)) THEN "Low"
                         ELSE "Very Low"],
        [category |-> "Roster Size",
         figures |-> <<Int2Num(Len(dukes)), n.avg_roster>>,
         implication |-> IF LT(Int2Num(Len(dukes)), n.avg_roster)
                         THEN "Below average" ELSE "Above average"],
        [category |-> "Average Player Value",
         figures |-> <<n.duke_avg, n.league_avg>>,
         implication |-> IF GT(n.duke_avg, n.league_avg)
                         THEN "Targeting premium players"
                         ELSE "Value-focused strategy"],
        [category |-> "Historical Context - Elite Players",
         figures |-> <<n.hist_tier1_infl>>,
         implication |-> "Elite players are historically the best value in auctions"],
        [category |-> "Historical Context - Budget Players",
         figures |-> <<n.hist_budget_infl>>,
         implication |-> "Budget players are consistently overvalued"] >>

GenerateInsights ==
  /\ pc = "compared"
  /\ IF InsightsError(duke_players, all_players, teams, historical) # "none"
     THEN /\ pc' = "failed"
          /\ error' = InsightsError(duke_players, all_players, teams, historical)
          /\ UNCHANGED insights
     ELSE /\ pc' = "insights"
          /\ insights' = generate_insights(duke_players, all_players, teams,
                                           historical)
          /\ UNCHANGED error
  /\ UNCHANGED <<files, outputFile, auction_data, historical,
                 all_players, duke_players, teams, league_pos_stats,
                 duke_pos_breakdown, league_price_tiers, duke_price_tiers,
                 duke_vs_league, analysis>>

\* ------------------------------------- create_analysis: the report object
RosterEntry(p) ==
  [name |-> p.fullName, positions |-> p.positions, winningBid |-> p.winningBid]

\* sorted(..., key=winningBid, reverse=True): stable, highest bid first
RECURSIVE InsertDesc(_, _)
InsertDesc(x, s) ==
  IF s = <<>> THEN <<x>>
  ELSE IF x.winningBid >= Head(s).winningBid THEN <<x>> \o s
  ELSE <<Head(s)>> \o InsertDesc(x, Tail(s))

RECURSIVE SortDesc(_)
SortDesc(s) == IF s = <<>> THEN <<>> ELSE InsertDesc(Head(s), SortDesc(Tail(s)))

leagueOverview(everyone, tm) ==
  LET total_spent == SumSeq(Bids(everyone))
      n == Cardinality(DOMAIN tm)
  IN [totalTeams |-> n,
      totalPlayersDrafted |-> Len(everyone),
      totalMoneySpent |-> total_spent,
      averageSpendPerTeam |-> Div(Int2Num(total_spent), Int2Num(n)),
      expectedBudgetPerTeam |-> ExpectedBudget,
      averageRosterSize |-> Div(Int2Num(Len(everyone)), Int2Num(n)),
      budgetUtilization |-> Mul(Div(Int2Num(total_spent),
                                    Int2Num(n * ExpectedBudget)), Int2Num(100))]

dukeSummary(dukes) ==
  LET duke_total == SumSeq(Bids(dukes))
  IN [playerCount |-> Len(dukes),
      totalSpent |-> duke_total,
      remainingBudget |-> ExpectedBudget - duke_total,
      budgetUtilization |-> Mul(Div(Int2Num(duke_total), Int2Num(ExpectedBudget)),
                                Int2Num(100)),
      averagePerPlayer |-> Div(Int2Num(duke_total), Int2Num(Len(dukes)))]

overallComparison(dukes, everyone) ==
  LET dukeAvg == Div(Int2Num(SumSeq(Bids(dukes))), Int2Num(Len(dukes)))
      leagueAvg == Div(Int2Num(SumSeq(Bids(everyone))), Int2Num(Len(everyone)))
  IN [dukeAvgBid |-> dukeAvg,
      leagueAvgBid |-> leagueAvg,
      difference |-> Sub(dukeAvg, leagueAvg),
      percentDiff |-> IF Len(everyone) > 0
                      THEN Mul(Div(Sub(dukeAvg, leagueAvg), leagueAvg),
                               Int2Num(100))
                      ELSE Int2Num(0)]

teamComparison(tm) ==
  [team \in DOMAIN tm |->
     [playerCount |-> Len(tm[team].players),
      totalSpent |-> tm[team].total,
      avgPerPlayer |-> IF tm[team].players # <<>>
                       THEN Div(Int2Num(tm[team].total),
                                Int2Num(Len(tm[team].players)))
                       ELSE Int2Num(0),
      remainingBudget |-> ExpectedBudget - tm[team].total,
      budgetUtilization |-> Mul(Div(Int2Num(tm[team].total),
                                    Int2Num(ExpectedBudget)), Int2Num(100))]]

\* the figures formatted into keyFindings and recommendations
reportFigures(dukes, everyone, tm, hist) ==
  LET n == Cardinality(DOMAIN tm)
  IN [remainingPct |-> Mul(Div(Int2Num(ExpectedBudget - SumSeq(Bids(dukes))),
                               Int2Num(ExpectedBudget)), Int2Num(100)),
      tier1 |-> PyIndex(hist.aggregateTierInflation, 0),
      premium |-> PyIndex(hist.aggregatePriceRangeInflation, 3),
      budgetTier |-> PyIndex(hist.aggregatePriceRangeInflation, 0),
      avgRoster |-> Div(Int2Num(Len(everyone)), Int2Num(n)),
      rosterGap |-> IF n = 0 THEN 0 ELSE (Len(everyone) \div n) - Len(dukes)]

build_analysis(dukes, everyone, tm, lps, dpb, lpt, dpt, dvl, ins, hist) ==
  [leagueOverview |-> leagueOverview(everyone, tm),
   dukeRoster |->
     [summary |-> dukeSummary(dukes),
      players |-> SortDesc([i \in 1..Len(dukes) |-> RosterEntry(dukes[i])]),
      positionBreakdown |-> dpb,
      priceTierBreakdown |-> dpt],
   leagueMarket |-> [positionStats |-> lps, priceTierStats |-> lpt],
   dukeVsLeague |->
     [positionComparison |-> dvl,
      overallComparison |-> overallComparison(dukes, everyone)],
   teamComparison |-> teamComparison(tm),
   historicalContext |->
     [tierInflationPatterns |-> hist.aggregateTierInflation,
      priceRangeInflation |-> hist.aggregatePriceRangeInflation],
   insights |-> ins,
   figures |-> reportFigures(dukes, everyone, tm, hist)]

\* the first exception the dict literal of lines 207-296 raises, if any
AnalysisError(a) ==
  FirstErr(<<a.leagueOverview.averageSpendPerTeam,
             a.leagueOverview.averageRosterSize,
             a.leagueOverview.budgetUtilization,
             a.dukeRoster.summary.averagePerPlayer,
             a.dukeVsLeague.overallComparison.dukeAvgBid,
             a.dukeVsLeague.overallComparison.leagueAvgBid,
             a.dukeVsLeague.overallComparison.percentDiff,
             a.figures.tier1, a.figures.premium, a.figures.budgetTier,
             a.figures.avgRoster>>)

CompileAnalysis ==
  /\ pc = "insights"
  /\ LET a == build_analysis(duke_players, all_players, teams,
                             league_pos_stats, duke_pos_breakdown,
                             league_price_tiers, duke_price_tiers,
                             duke_vs_league, insights, historical)
     IN IF AnalysisError(a) # "none"
        THEN /\ pc' = "failed"
             /\ error' = AnalysisError(a)
             /\ UNCHANGED analysis
        ELSE /\ pc' = "compiled"
             /\ analysis' = <<a>>
             /\ UNCHANGED error
  /\ UNCHANGED <<files, outputFile, auction_data, historical,
                 all_players, duke_players, teams, league_pos_stats,
                 duke_pos_breakdown, league_price_tiers, duke_price_tiers,
                 duke_vs_league, insights>>

\* ------------------------------------------- create_analysis: the output
\* variant: the file is opened before the report object is built
OpenOutput_BeforeCompile ==
  /\ pc = "insights"
  /\ outputFile.state = "untouched"
  /\ outputFile' = [state |-> "truncated", content |-> <<>>]
  /\ UNCHANGED <<pc, error, files, auction_data, historical,
                 all_players, duke_players, teams, league_pos_stats,
                 duke_pos_breakdown, league_price_tiers, duke_price_tiers,
                 duke_vs_league, insights, analysis>>

\* open(output_file, 'w') truncates the file
OpenOutput ==
  /\ pc = "compiled"
  /\ pc' = "opened"
  /\ outputFile' = [state |-> "truncated", content |-> <<>>]
  /\ UNCHANGED <<error, files, auction_data, historical,
                 all_players, duke_players, teams, league_pos_stats,
                 duke_pos_breakdown, league_price_tiers, duke_price_tiers,
                 duke_vs_league, insights, analysis>>

\* json.dump(analysis, f) and the close of the with block
DumpJson ==
  /\ pc = "opened"
  /\ pc' = "saved"
  /\ outputFile' = [state |-> "written", content |-> analysis]
  /\ UNCHANGED <<error, files, auction_data, historical,
                 all_players, duke_players, teams, league_pos_stats,
                 duke_pos_breakdown, league_price_tiers, duke_price_tiers,
                 duke_vs_league, insights, analysis>>

\* the console summary of lines 303-315
SummaryError ==
  FirstErr(<<Div(Int2Num(Len(all_players)), Int2Num(Cardinality(DOMAIN teams))),
             Div(Int2Num(SumSeq(Bids(all_players))),
                 Int2Num(Cardinality(DOMAIN teams)))>>)

PrintSummary ==
  /\ pc = "saved"
  /\ IF SummaryError # "none"
     THEN /\ pc' = "failed"
          /\ error' = SummaryError
     ELSE /\ pc' = "done"
          /\ UNCHANGED error
  /\ UNCHANGED <<files, outputFile, auction_data, historical,
                 all_players, duke_players, teams, league_pos_stats,
                 duke_pos_breakdown, league_price_tiers, duke_price_tiers,
                 duke_vs_league, insights, analysis>>

Next ==
  \/ LoadData
  \/ ExtractPlayers
  \/ AnalyzeTeams
  \/ AnalyzePositions
  \/ AnalyzePriceTiers
  \/ CompareDukeToLeague
  \/ GenerateInsights
  \/ CompileAnalysis
  \/ OpenOutput
  \/ DumpJson
  \/ PrintSummary

Spec == Init /\ [][Next]_vars

\* ================================================================ claims
AfterExtract == pc \in {"extracted", "teams", "positions", "tiers",
                        "compared", "insights", "compiled", "opened",
                        "saved", "done"}
AfterTeams == AfterExtract /\ pc # "extracted"
AfterPositions == AfterTeams /\ pc # "teams"
AfterTiers == AfterPositions /\ pc # "positions"
AfterCompare == AfterTiers /\ pc # "tiers"
Terminated == pc \in {"done", "failed"}

RECURSIVE SumFn(_, _)
SumFn(f, S) ==
  IF S = {} THEN 0
  ELSE LET x == CHOOSE y \in S : TRUE IN f[x] + SumFn(f, S \ {x})

Idx(players) == 1..Len(players)
HasPos(p, code) == \E k \in 1..Len(p.positions) : p.positions[k] = code
AtPos(players, code) == {i \in Idx(players) : HasPos(players[i], code)}
BidOf(players) == [i \in Idx(players) |-> players[i].winningBid]
Total(players) == SumFn(BidOf(players), Idx(players))
Codes(players) ==
  UNION {{players[i].positions[k] : k \in 1..Len(players[i].positions)} :
         i \in Idx(players)}
KeyOf(p) == IF p.hasTeam THEN p.winningTeam ELSE "Unknown"
HistoryComplete ==
  /\ historical.state = "ok"
  /\ Len(historical.aggregateTierInflation) >= 1
  /\ Len(historical.aggregatePriceRangeInflation) >= 4

\* C1: when no player is drafted, or Duke has no drafted player, the
\* pipeline never ends in a division by zero.
C1_EmptySetGuarded ==
  (auction_data.state = "ok" /\ (all_players = <<>> \/ duke_players = <<>>))
    => error # "ZeroDivisionError"

\* C2: for a non-empty player set the per-tier counts add up to the number
\* of players of the set.
TierCountsAddUp(players, pt) ==
  players # <<>> =>
    SumFn([l \in DOMAIN pt |-> pt[l].count], DOMAIN pt) = Len(players)
C2_TierCountsPartition ==
  AfterTiers => /\ TierCountsAddUp(all_players, league_price_tiers)
                /\ TierCountsAddUp(duke_players, duke_price_tiers)

\* C3: the output file is touched only after both inputs are loaded and
\* the whole report is computed; a failed run leaves it untouched and a
\* finished run leaves the complete report in it.
C3_OutputAfterCompute ==
  /\ outputFile.state # "untouched" =>
       /\ pc \in {"opened", "saved", "done"}
       /\ error = "none"
       /\ auction_data.state = "ok" /\ historical.state = "ok"
       /\ Len(insights) = 5
       /\ Len(analysis) = 1
  /\ pc = "failed" => outputFile.state = "untouched"
  /\ pc = "done" => /\ outputFile.state = "written"
                    /\ outputFile.content = analysis
C3_Witness == pc = "done" /\ outputFile.state = "written"

\* C4: every snapshot with at least one drafted player (and readable,
\* complete inputs) ends with a report whose averageSpendPerTeam is the
\* total spend over the number of distinct winning teams and whose
\* remainingBudget of every team is 260 minus that team's bids.
ReportFigures(a) ==
  LET names == {KeyOf(all_players[i]) : i \in Idx(all_players)}
      of(t) == {i \in Idx(all_players) : KeyOf(all_players[i]) = t}
      avg == a.leagueOverview.averageSpendPerTeam
  IN /\ avg.err = "none"
     /\ avg.num * Cardinality(names) = Total(all_players) * avg.den
     /\ DOMAIN a.teamComparison = names
     /\ \A t \in names :
          a.teamComparison[t].remainingBudget
            = 260 - SumFn(BidOf(all_players), of(t))
C4_ReportForEveryNonEmptySnapshot ==
  (Terminated /\ auction_data.state = "ok" /\ HistoryComplete
     /\ all_players # <<>>)
    => /\ pc = "done"
       /\ outputFile.state = "written"
       /\ ReportFigures(outputFile.content[1])

TierKeys(players, pt) ==
  /\ \A i \in DOMAIN tiers :
       (tiers[i].label \in DOMAIN pt)
         <=> (\E j \in Idx(players) :
                /\ tiers[i].min_p <= players[j].winningBid
                /\ players[j].winningBid <= tiers[i].max_p)
  /\ \A l \in DOMAIN pt : pt[l].count >= 1
  /\ (\A j \in Idx(players) : players[j].winningBid < 31)
       => "Elite ($31+)" \notin DOMAIN pt
Add(a, b) == Ok(a.num * b.den + b.num * a.den, a.den * b.den)
RECURSIVE SumNum(_, _)
SumNum(f, S) ==
  IF S = {} THEN Int2Num(0)
  ELSE LET x == CHOOSE y \in S : TRUE IN Add(f[x], SumNum(f, S \ {x}))
TierSharesAddUp(players, pt) ==
  players # <<>> =>
    /\ SumFn([l \in DOMAIN pt |-> pt[l].totalSpent], DOMAIN pt) = Total(players)
    /\ LET s == SumNum([l \in DOMAIN pt |-> pt[l].percentOfTotal], DOMAIN pt)
       IN s.num = 100 * s.den
C7_TierSharesSumTo100 ==
  AfterTiers => /\ TierSharesAddUp(all_players, league_price_tiers)
                /\ TierSharesAddUp(duke_players, duke_price_tiers)

\* C8: per position of Duke's breakdown the label is 'overpaid' exactly
\* when Duke's mean bid is strictly above the league's mean bid, equal
\* means give 'value', and percentDiff is 0 when the league mean is 0.
DukeAbove(code) ==
  SumFn(BidOf(duke_players), AtPos(duke_players, code))
      * Cardinality(AtPos(all_players, code))
    > SumFn(BidOf(all_players), AtPos(all_players, code))
      * Cardinality(AtPos(duke_players, code))
DukeLevel(code) ==
  SumFn(BidOf(duke_players), AtPos(duke_players, code))
      * Cardinality(AtPos(all_players, code))
    = SumFn(BidOf(all_players), AtPos(all_players, code))
      * Cardinality(AtPos(duke_players, code))
C8_OverpaidIffStrictlyAbove ==
  AfterCompare =>
    /\ DOMAIN duke_vs_league = Codes(duke_players)
    /\ \A code \in Codes(duke_players) :
         /\ (duke_vs_league[code].interpretation = "overpaid") <=> DukeAbove(code)
         /\ duke_vs_league[code].interpretation \in {"overpaid", "value"}
         /\ DukeLevel(code) => duke_vs_league[code].interpretation = "value"
         /\ SumFn(BidOf(all_players), AtPos(all_players, code)) = 0
              => duke_vs_league[code].percentDiff = Int2Num(0)
C8_Witness ==
  /\ AfterCompare
  /\ \E code \in Codes(duke_players) :
       /\ Cardinality(AtPos(all_players, code))
            = Cardinality(AtPos(duke_players, code))
       /\ DukeLevel(code)
       /\ duke_vs_league[code].interpretation = "value"
  /\ \E code \in Codes(duke_players) :
       duke_vs_league[code].interpretation = "overpaid"

\* C9: a position with fewer than two bids has stdDev 0, every emitted
\* position has at least one bid, and analyze_positions never fails.
C9_StdDevZeroUnderTwo ==
  /\ error # "StatisticsError"
  /\ AfterPositions =>
       \A code \in DOMAIN league_pos_stats :
         /\ league_pos_stats[code].count >= 1
         /\ league_pos_stats[code].avgBid.err = "none"
         /\ league_pos_stats[code].count < 2
              => league_pos_stats[code].stdDev = Int2Num(0)
C9_Witness ==
  /\ AfterPositions
  /\ \E code \in DOMAIN league_pos_stats : league_pos_stats[code].count = 1
  /\ \E code \in DOMAIN league_pos_stats :
       /\ league_pos_stats[code].count = 2
       /\ league_pos_stats[code].stdDev.num > 0

\* C10: analyze_teams partitions the drafted players by winning team
\* ('Unknown' without one): each team's list is the players of that team,
\* its total the sum of their bids, so counts and totals add up to the
\* league's.
C10_TeamsPartition ==
  AfterTeams =>
    /\ all_players = SelectSeq(auction_data.players,
                               LAMBDA p : p.status = "drafted" /\ p.hasBid)
    /\ DOMAIN teams = {KeyOf(all_players[i]) : i \in Idx(all_players)}
    /\ \A t \in DOMAIN teams :
         /\ teams[t].players = SelectSeq(all_players, LAMBDA p : KeyOf(p) = t)
         /\ teams[t].total = SumSeq(Bids(teams[t].players))
    /\ SumFn([t \in DOMAIN teams |-> Len(teams[t].players)], DOMAIN teams)
         = Len(all_players)
    /\ SumFn([t \in DOMAIN teams |-> teams[t].total], DOMAIN teams)
         = Total(all_players)
C10_Witness ==
  /\ AfterTeams
  /\ "Unknown" \in DOMAIN teams
  /\ \E t \in DOMAIN teams : Len(teams[t].players) = 2
====
